---- MODULE Spec2Model ----
(***************************************************************************)
(* Model of the encryption benchmark client (client.js) and of the        *)
(* in-memory string store it talks to (the express peer).                 *)
(*                                                                         *)
(* Strings are sequences of code points, buffers are sequences of bytes.  *)
(* A JavaScript `undefined` is the integer Undefined where a number is     *)
(* expected and the one-element sequence UndefinedText where a string is.  *)
(***************************************************************************)
EXTENDS Integers, Sequences, FiniteSets, TLC

\* ------------------------------------------------------------------ bounds
MaxIter == 3        \* largest `iterations` argument of benchmark
MaxN == 4           \* longest sequence of durations handed to the statistics
MaxDur == 5         \* largest duration handed to the statistics
MaxChars == 385     \* longest plaintext (in characters) given to encryptRSA
MaxRecords == 4     \* most requests the free clients of the peer send

\* ------------------------------------------------------- program constants
maxChunkSize == 190
aesKey == 11
chachaKey == 23
privateKey == 5

Undefined == 0 - 1
UndefinedText == <<0 - 1>>
PosInfinity == 1000000
NegInfinity == 0 - 1000000
NaN == <<0, 0>>

\* Clock readings of one iteration, initial states of the random generator,
\* plaintexts
Durations == {1, 2}
Seeds == {0, 1}
Texts == {<<>>, <<104>>, <<104, 233>>}

\* ---------------------------------------------------------- byte helpers
\* Buffer.concat
RECURSIVE BufferConcat(_)
BufferConcat(bufs) ==
  IF Len(bufs) = 0 THEN <<>> ELSE Head(bufs) \o BufferConcat(Tail(bufs))

\* Buffer.from(text, 'utf8') for code points below 2048: one byte below 128,
\* two bytes from there on.  (Computed by halves, the result is that of the
\* left-to-right pass.)
RECURSIVE Utf8Encode(_)
Utf8Encode(text) ==
  IF Len(text) = 0 THEN <<>>
  ELSE IF Len(text) = 1
  THEN IF text[1] < 128 THEN <<text[1]>>
       ELSE <<192 + (text[1] \div 64), 128 + (text[1] % 64)>>
  ELSE LET m == Len(text) \div 2 IN
       Utf8Encode(SubSeq(text, 1, m)) \o Utf8Encode(SubSeq(text, m + 1, Len(text)))

IsLead(x) == x >= 192 /\ x < 224
IsContinuation(x) == x >= 128 /\ x < 192

\* buffer.toString('utf8'): a lead byte and its continuation byte make one
\* character, any other byte of 128 or more decodes to U+FFFD.  (Computed by
\* halves cut at a character boundary.)
RECURSIVE Utf8Decode(_)
Utf8Decode(b) ==
  IF Len(b) = 0 THEN <<>>
  ELSE IF Len(b) = 1 THEN (IF b[1] < 128 THEN <<b[1]>> ELSE <<65533>>)
  ELSE IF Len(b) = 2 /\ IsLead(b[1]) /\ IsContinuation(b[2])
  THEN <<(b[1] - 192) * 64 + (b[2] - 128)>>
  ELSE LET h == Len(b) \div 2
           m == IF IsLead(b[h]) /\ IsContinuation(b[h + 1]) THEN h + 1 ELSE h
       IN Utf8Decode(SubSeq(b, 1, m)) \o Utf8Decode(SubSeq(b, m + 1, Len(b)))

HexChar(n) == IF n < 10 THEN 48 + n ELSE 87 + n
HexVal(c) == IF c >= 48 /\ c <= 57 THEN c - 48
             ELSE IF c >= 97 /\ c <= 102 THEN c - 87 ELSE 0

\* buffer.toString('hex')
ToHex(bytes) ==
  [k \in 1..(2 * Len(bytes)) |->
      IF k % 2 = 1 THEN HexChar(bytes[(k + 1) \div 2] \div 16)
      ELSE HexChar(bytes[k \div 2] % 16)]

\* Buffer.from(hex, 'hex')
FromHex(h) ==
  [j \in 1..(Len(h) \div 2) |-> HexVal(h[2 * j - 1]) * 16 + HexVal(h[2 * j])]

\* the end offset taken as inclusive of nothing: one byte short
SliceShort(buf, from, to) ==
  SubSeq(buf, from + 1, IF to > Len(buf) THEN Len(buf) ELSE to - 1)

\* buffer.slice(from, to) with zero-based, end-exclusive offsets
Slice(buf, from, to) ==
  SubSeq(buf, from + 1, IF to > Len(buf) THEN Len(buf) ELSE to)

\* ------------------------------------------------------------ JavaScript
\* Results of calls that may throw: Return(v) or Throw(name)
Return(v) == [thrown |-> FALSE, err |-> "", val |-> v]
Throw(e) == [thrown |-> TRUE, err |-> e, val |-> <<>>]

RECURSIVE Decimal(_)
\* `${n}` for a non-negative integer
Decimal(n) == IF n < 10 THEN <<48 + n>> ELSE Decimal(n \div 10) \o <<48 + (n % 10)>>

\* `${id}` in the template literal of the retrieve path
TemplateLiteral(id) ==
  IF id = Undefined THEN <<117, 110, 100, 101, 102, 105, 110, 101, 100>>
  ELSE Decimal(id)

RECURSIVE ParseDigits(_, _, _)
ParseDigits(s, p, acc) ==
  IF p <= Len(s) /\ s[p] >= 48 /\ s[p] <= 57
  THEN ParseDigits(s, p + 1, acc * 10 + (s[p] - 48))
  ELSE acc

\* parseInt: the leading decimal digits, NaN (here Undefined) without any
parseInt(s) ==
  IF Len(s) > 0 /\ s[1] >= 48 /\ s[1] <= 57 THEN ParseDigits(s, 1, 0)
  ELSE Undefined

RECURSIVE SplitFrom(_, _, _, _)
SplitFrom(s, sep, p, cur) ==
  IF p > Len(s) THEN <<cur>>
  ELSE IF s[p] = sep THEN <<cur>> \o SplitFrom(s, sep, p + 1, <<>>)
  ELSE SplitFrom(s, sep, p + 1, Append(cur, s[p]))

Split(s, sep) == IF Len(s) = 0 THEN <<>> ELSE SplitFrom(s, sep, 1, <<>>)

RECURSIVE Join(_, _)
Join(parts, sep) ==
  IF Len(parts) = 0 THEN <<>>
  ELSE IF Len(parts) = 1 THEN parts[1]
  ELSE parts[1] \o <<sep>> \o Join(Tail(parts), sep)

IndexOf(s, c) ==
  IF \E p \in 1..Len(s) : s[p] = c
  THEN CHOOSE p \in 1..Len(s) : s[p] = c /\ \A q \in 1..(p - 1) : s[q] # c
  ELSE 0

\* JSON.stringify of an envelope.  Braces, brackets and commas are kept, the
\* member names and the quotes (fixed text) are left out:
\*   symmetric  { encrypted , iv , authTag }
\*   asymmetric { [ chunk , chunk , ... ] , chunkCount }
JSONstringify(envelope) ==
  IF "chunkCount" \in DOMAIN envelope
  THEN <<123, 91>> \o Join(envelope.encrypted, 44) \o <<93, 44>>
       \o Decimal(envelope.chunkCount) \o <<125>>
  ELSE <<123>> \o envelope.encrypted \o <<44>> \o envelope.iv \o <<44>>
       \o envelope.authTag \o <<125>>

\* JSON.parse of such a string; anything else (undefined included) is a
\* SyntaxError
JSONparse(s) ==
  IF Len(s) < 2 \/ s[1] # 123 \/ s[Len(s)] # 125 THEN Throw("SyntaxError")
  ELSE IF s[2] = 91
  THEN LET rb == IndexOf(s, 93) IN
       IF rb = 0 \/ rb + 1 >= Len(s) \/ s[rb + 1] # 44 THEN Throw("SyntaxError")
       ELSE Return([encrypted |-> Split(SubSeq(s, 3, rb - 1), 44),
                    chunkCount |-> parseInt(SubSeq(s, rb + 2, Len(s) - 1))])
  ELSE LET parts == SplitFrom(s, 44, 2, <<>>) IN
       IF Len(parts) # 3 THEN Throw("SyntaxError")
       ELSE Return([encrypted |-> parts[1], iv |-> parts[2],
                    authTag |-> SubSeq(parts[3], 1, Len(parts[3]) - 1)])

\* ---------------------------------------------------------------- crypto
\* The node crypto primitives, as byte-wise toy ciphers with the same
\* interface: a keystream cipher with a one-byte nonce and a one-byte tag
\* for the two AEAD schemes, a masked block of at most 190 bytes for OAEP.
Keystream(alg, key, iv, j) ==
  IF alg = "aes-256-gcm" THEN (key * 31 + iv * 17 + j * 7) % 256
  ELSE (key * 13 + iv * 29 + j * j) % 256

\* cipher.update + cipher.final
CipherUpdate(alg, key, iv, bytes) ==
  [j \in 1..Len(bytes) |-> (bytes[j] + Keystream(alg, key, iv, j)) % 256]

\* decipher.update
DecipherUpdate(alg, key, iv, bytes) ==
  [j \in 1..Len(bytes) |-> (bytes[j] + 256 - Keystream(alg, key, iv, j)) % 256]

RECURSIVE WeightedSum(_, _)
WeightedSum(bytes, p) ==
  IF p > Len(bytes) THEN 0 ELSE p * bytes[p] + WeightedSum(bytes, p + 1)

\* cipher.getAuthTag
AuthTag(alg, key, iv, ct) ==
  <<(key + 3 * iv + Len(alg) + WeightedSum(ct, 1)) % 256>>

encryptAEAD(alg, text, key, iv) ==
  LET encrypted == CipherUpdate(alg, key, iv, Utf8Encode(text)) IN
  [encrypted |-> ToHex(encrypted),
   iv |-> ToHex(<<iv>>),
   authTag |-> ToHex(AuthTag(alg, key, iv, encrypted))]

decryptAEAD(alg, encryptedData, key) ==
  LET ivBuf == FromHex(encryptedData.iv)
      ct == FromHex(encryptedData.encrypted)
  IN IF Len(ivBuf) # 1 THEN Throw("InvalidIV")
     ELSE IF AuthTag(alg, key, ivBuf[1], ct) # FromHex(encryptedData.authTag)
     THEN Throw("AuthenticationFailure")
     ELSE Return(Utf8Decode(DecipherUpdate(alg, key, ivBuf[1], ct)))

\* AES-256-GCM: iv is the result of crypto.randomBytes
encryptAES(text, key, iv) == encryptAEAD("aes-256-gcm", text, key, iv)
decryptAES(encryptedData, key) == decryptAEAD("aes-256-gcm", encryptedData, key)

\* ChaCha20-Poly1305
encryptChaCha20(text, key, iv) == encryptAEAD("chacha20-poly1305", text, key, iv)
decryptChaCha20(encryptedData, key) ==
  decryptAEAD("chacha20-poly1305", encryptedData, key)

\* the key pair of generateKeyPairSync: the two halves cancel
publicKey == 256 - privateKey
\* 2048-bit modulus, OAEP with SHA-256: 256 - 2*32 - 2 bytes per block
OaepCapacity == 256 - 2 * 32 - 2

\* crypto.publicEncrypt: seed is the random OAEP seed
publicEncrypt(key, chunk, seed) ==
  IF Len(chunk) > OaepCapacity THEN Throw("DataTooLarge")
  ELSE Return(<<seed>> \o [j \in 1..Len(chunk) |-> (chunk[j] + key + seed) % 256])

\* crypto.privateDecrypt
privateDecrypt(key, block) ==
  IF Len(block) = 0 \/ Len(block) > OaepCapacity + 1 THEN Throw("DecryptionFailure")
  ELSE Return([j \in 1..(Len(block) - 1) |->
                  (block[j + 1] + key + 256 - block[1]) % 256])

\* the for loop of encryptRSA from offset i on: the list of results of
\* publicEncrypt, hex-encoded
RECURSIVE encryptRSAChunks(_, _, _, _)
encryptRSAChunks(textBuffer, key, rnd, i) ==
  IF i < Len(textBuffer)
  THEN LET chunk == Slice(textBuffer, i, i + maxChunkSize)
           encrypted == publicEncrypt(key, chunk, (rnd + i) % 256)
       IN <<IF encrypted.thrown THEN encrypted
            ELSE Return(ToHex(encrypted.val))>>
          \o encryptRSAChunks(textBuffer, key, rnd, i + maxChunkSize)
  ELSE <<>>

\* RSA encryption; rnd stands for the randomness publicEncrypt draws
encryptRSA(text, key, rnd) ==
  LET results == encryptRSAChunks(Utf8Encode(text), key, rnd, 0) IN
  IF \E k \in 1..Len(results) : results[k].thrown
  THEN Throw("DataTooLarge")
  ELSE LET chunks == [k \in 1..Len(results) |-> results[k].val] IN
       Return([encrypted |-> chunks, chunkCount |-> Len(chunks)])

\* RSA decryption
decryptRSA(encryptedData, key) ==
  LET chunks == encryptedData.encrypted
      results == [k \in 1..Len(chunks) |-> privateDecrypt(key, FromHex(chunks[k]))]
  IN IF \E k \in 1..Len(results) : results[k].thrown
     THEN Throw("DecryptionFailure")
     ELSE LET decryptedChunks == [k \in 1..Len(results) |-> results[k].val]
              fullBuffer == BufferConcat(decryptedChunks)
          IN Return(Utf8Decode(fullBuffer))

\* ------------------------------------------------------------ statistics
\* times.reduce((a, b) => a + b, 0)
RECURSIVE Reduce(_, _, _)
Reduce(ts, p, acc) == IF p > Len(ts) THEN acc ELSE Reduce(ts, p + 1, acc + ts[p])

\* Math.min(...ts): Infinity without arguments
RECURSIVE MathMin(_, _, _)
MathMin(ts, p, acc) ==
  IF p > Len(ts) THEN acc
  ELSE MathMin(ts, p + 1, IF ts[p] < acc THEN ts[p] ELSE acc)

\* Math.max(...ts): -Infinity without arguments
RECURSIVE MathMax(_, _, _)
MathMax(ts, p, acc) ==
  IF p > Len(ts) THEN acc
  ELSE MathMax(ts, p + 1, IF ts[p] > acc THEN ts[p] ELSE acc)

\* comparator (a, b) => b - a
RECURSIVE InsertSortedDescending(_, _)
InsertSortedDescending(sorted, x) ==
  IF Len(sorted) = 0 THEN <<x>>
  ELSE IF Head(sorted) - x < 0 THEN <<x>> \o sorted
  ELSE <<Head(sorted)>> \o InsertSortedDescending(Tail(sorted), x)

RECURSIVE InsertSorted(_, _)
InsertSorted(sorted, x) ==
  IF Len(sorted) = 0 THEN <<x>>
  ELSE IF x - Head(sorted) < 0 THEN <<x>> \o sorted
  ELSE <<Head(sorted)>> \o InsertSorted(Tail(sorted), x)

\* ts.sort((a, b) => a - b)
RECURSIVE SortAscending(_)
SortAscending(ts) ==
  IF Len(ts) = 0 THEN <<>>
  ELSE InsertSorted(SortAscending(SubSeq(ts, 1, Len(ts) - 1)), ts[Len(ts)])

\* sorted[Math.floor((sorted.length - 1) / 2)]
MedianLowerMiddle(sorted) ==
  IF Len(sorted) = 0 THEN Undefined ELSE sorted[((Len(sorted) - 1) \div 2) + 1]

\* sorted[Math.floor(sorted.length / 2)], undefined past the end
Median(sorted) ==
  IF Len(sorted) = 0 THEN Undefined ELSE sorted[(Len(sorted) \div 2) + 1]

\* The statistics at the end of benchmark.  avg is the exact quotient
\* <<sum, count>>; 0/0 is NaN.  Printing the median of no durations calls
\* toFixed on undefined, which throws a TypeError before anything is returned.
Statistics(ts) ==
  LET avg == <<Reduce(ts, 1, 0), Len(ts)>>
      min == MathMin(ts, 1, PosInfinity)
      max == MathMax(ts, 1, NegInfinity)
      sorted == SortAscending(ts)
      median == Median(sorted)
  IN IF median = Undefined THEN Throw("TypeError")
     ELSE Return([avg |-> avg, median |-> median, min |-> min, max |-> max])

\* ------------------------------------------------------------------ peer
NoResponse == [status |-> 0, id |-> Undefined, text |-> UndefinedText]

\* the id is read after the push
PostStoreIdAfterPush(strs, txt) ==
  IF txt = UndefinedText \/ Len(txt) = 0
  THEN [strings |-> strs,
        res |-> [status |-> 400, id |-> Undefined, text |-> UndefinedText]]
  ELSE LET newId == Len(strs) + 1 IN
       [strings |-> Append(strs, [id |-> newId, text |-> txt]),
        res |-> [status |-> 201, id |-> newId, text |-> txt]]

\* the record is pushed before the text is validated
PostStorePushFirst(strs, txt) ==
  LET newId == Len(strs)
      pushed == Append(strs, [id |-> newId, text |-> txt])
  IN IF txt = UndefinedText \/ Len(txt) = 0
     THEN [strings |-> pushed,
           res |-> [status |-> 400, id |-> Undefined, text |-> UndefinedText]]
     ELSE [strings |-> pushed,
           res |-> [status |-> 201, id |-> newId, text |-> txt]]

\* app.post('/store'): the new list of records and the response.  A missing
\* text field is UndefinedText; it and the empty string are falsy.
PostStore(strs, txt) ==
  IF txt = UndefinedText \/ Len(txt) = 0
  THEN [strings |-> strs,
        res |-> [status |-> 400, id |-> Undefined, text |-> UndefinedText]]
  ELSE LET newId == Len(strs) IN
       [strings |-> Append(strs, [id |-> newId, text |-> txt]),
        res |-> [status |-> 201, id |-> newId, text |-> txt]]

\* the id is taken as a one-based position
GetStringOneBased(strs, param) ==
  LET n == parseInt(param) IN
  IF n < 1 \/ n > Len(strs)
  THEN [status |-> 404, id |-> Undefined, text |-> UndefinedText]
  ELSE [status |-> 200, id |-> strs[n].id, text |-> strs[n].text]

\* app.get('/strings/:id'): the response
GetString(strs, param) ==
  LET n == parseInt(param) IN
  IF n < 0 \/ n >= Len(strs)
  THEN [status |-> 404, id |-> Undefined, text |-> UndefinedText]
  ELSE [status |-> 200, id |-> strs[n + 1].id, text |-> strs[n + 1].text]

\* ----------------------------------------------------------------- state
VARIABLES
  strings,        \* peer: the stored records
  inflight,       \* requests sent and not yet handled by the peer
  responses,      \* responses sent and not yet received by the client
  pc,             \* position of run / benchmark
  strat,          \* which of the four benchmark calls of run is executing
  text,           \* benchmark argument
  iterations,     \* benchmark argument
  i,              \* loop counter of benchmark
  times,          \* durations recorded by the current benchmark call
  id,             \* storeResponse.id of the current iteration
  storeResponse,  \* response the current iteration got from POST /store
  getResponse,    \* response the current iteration got from GET /strings/:id
  decrypted,      \* result of decryptFn in the current iteration
  ids,            \* the ids the current benchmark call read, in order
  base,           \* number of records on the peer when the call started
  reported,       \* summaries printed by the benchmark calls that returned
  err,            \* what the catch block of run caught
  rng,            \* state of the random generator behind crypto.randomBytes
  envelope        \* result of the last encryptRSA of the cipher check

vars == <<strings, inflight, responses, pc, strat, text, iterations, i, times,
          id, storeResponse, getResponse, decrypted, ids, base, reported, err,
          rng, envelope>>

\* the four benchmark calls of run, in order
Labels == <<"Unencrypted", "AES-256-GCM", "ChaCha20-Poly1305", "RSA-2048-OAEP">>

\* encryptFn(text, key) of call s followed by JSON.stringify; rnd is the
\* randomness the call draws
DataToSend(s, txt, rnd) ==
  IF s = 1 THEN Return(txt)
  ELSE IF s = 2 THEN Return(JSONstringify(encryptAES(txt, aesKey, rnd)))
  ELSE IF s = 3 THEN Return(JSONstringify(encryptChaCha20(txt, chachaKey, rnd)))
  ELSE LET e == encryptRSA(txt, publicKey, rnd) IN
       IF e.thrown THEN e ELSE Return(JSONstringify(e.val))

\* decryptFn(encryptedData, key) of call s
DecryptFn(s, encryptedData) ==
  IF s = 2 THEN decryptAES(encryptedData, aesKey)
  ELSE IF s = 3 THEN decryptChaCha20(encryptedData, chachaKey)
  ELSE decryptRSA(encryptedData, privateKey)

\* crypto.randomBytes and the OAEP seed: the generator steps once per call of an
\* encryptFn, and the bytes it hands out are its state
NextRandom(r) == (r * 5 + 3) % 256

\* makeRequest up to req.end(): the request is on the wire
makeRequest(method, param, data) ==
  inflight' = Append(inflight, [method |-> method, param |-> param, text |-> data])

\* run calls benchmark for the four strategies in turn.  benchmark is entered
\* against a fresh peer for any one of them (run then goes on with the ones
\* after it), with any plaintext of Texts and any iteration count up to
\* MaxIter in place of run's testString and the default of 100.
Init ==
  /\ strings = <<>>
  /\ inflight = <<>>
  /\ responses = <<>>
  /\ pc = "loop"
  /\ strat \in 1..4
  /\ text \in Texts
  /\ iterations \in 0..MaxIter
  /\ i = 0
  /\ times = <<>>
  /\ id = Undefined
  /\ storeResponse = NoResponse
  /\ getResponse = NoResponse
  /\ decrypted = UndefinedText
  /\ ids = <<>>
  /\ base = 0
  /\ reported = <<>>
  /\ err = ""
  /\ rng \in Seeds
  /\ envelope = <<>>

\* run's catch block
Caught(e) ==
  /\ pc' = "caught"
  /\ err' = e

\* One pass of the loop up to the first await: encrypt, stringify, POST /store.
\* The loop body is entered from the positions `from`.
IterationStartFrom(from) ==
  /\ pc \in from
  /\ i < iterations
  /\ LET dataToSend == DataToSend(strat, text, rng) IN
     IF dataToSend.thrown
     THEN /\ Caught(dataToSend.err)
          /\ UNCHANGED inflight
     ELSE /\ makeRequest("POST", <<>>, dataToSend.val)
          /\ pc' = "awaitStore"
          /\ UNCHANGED err
  /\ rng' = IF strat = 1 THEN rng ELSE NextRandom(rng)
  /\ storeResponse' = NoResponse
  /\ getResponse' = NoResponse
  /\ decrypted' = UndefinedText
  /\ id' = Undefined
  /\ UNCHANGED <<strings, responses, strat, text, iterations, i, times, ids,
                 base, reported, envelope>>

\* the loop re-enters its body although the retrieve is still awaited
IterationStartNoAwait == IterationStartFrom({"loop", "awaitGet"})

\* Each await suspends benchmark until its promise settles: the body is entered
\* only from the loop test
IterationStart == IterationStartFrom({"loop"})

\* The peer handles the oldest request
PeerHandle ==
  /\ Len(inflight) > 0
  /\ LET req == Head(inflight) IN
     IF req.method = "POST"
     THEN LET r == PostStore(strings, req.text) IN
          /\ strings' = r.strings
          /\ responses' = Append(responses, r.res)
     ELSE /\ responses' = Append(responses, GetString(strings, req.param))
          /\ UNCHANGED strings
  /\ inflight' = Tail(inflight)
  /\ UNCHANGED <<pc, strat, text, iterations, i, times, id, storeResponse,
                 getResponse, decrypted, ids, base, reported, err, rng, envelope>>

\* The store promise resolves (whatever the status): read id, GET the record
StoreResolved ==
  /\ pc = "awaitStore"
  /\ Len(responses) > 0
  /\ storeResponse' = Head(responses)
  /\ responses' = Tail(responses)
  /\ id' = Head(responses).id
  /\ ids' = Append(ids, Head(responses).id)
  /\ makeRequest("GET", TemplateLiteral(Head(responses).id), UndefinedText)
  /\ pc' = "awaitGet"
  /\ UNCHANGED <<strings, strat, text, iterations, i, times, getResponse,
                 decrypted, base, reported, err, rng, envelope>>

\* The retrieve promise resolves (whatever the status): parse, decrypt and
\* verify when the call has a decryptFn, then record the duration
RetrieveResolved ==
  /\ pc = "awaitGet"
  /\ Len(responses) > 0
  /\ getResponse' = Head(responses)
  /\ responses' = Tail(responses)
  /\ LET encryptedData == JSONparse(Head(responses).text)
         result == IF encryptedData.thrown THEN encryptedData
                   ELSE DecryptFn(strat, encryptedData.val)
     IN IF strat # 1 /\ result.thrown
        THEN /\ Caught(result.err)
             /\ UNCHANGED <<decrypted, times, i>>
        ELSE IF strat # 1 /\ result.val # text
        THEN /\ Caught("Decryption failed - data mismatch!")
             /\ decrypted' = result.val
             /\ UNCHANGED <<times, i>>
        ELSE /\ decrypted' = IF strat # 1 THEN result.val ELSE UndefinedText
             /\ \E duration \in Durations : times' = Append(times, duration)
             /\ i' = i + 1
             /\ pc' = "loop"
             /\ UNCHANGED err
  /\ UNCHANGED <<strings, inflight, strat, text, iterations, id, storeResponse,
                 ids, base, reported, rng, envelope>>

\* req.on('error'): the pending request fails, the promise rejects and the
\* exception leaves benchmark
RequestError ==
  /\ pc \in {"awaitStore", "awaitGet"}
  /\ inflight' = <<>>
  /\ responses' = <<>>
  /\ Caught("RequestError")
  /\ UNCHANGED <<strings, strat, text, iterations, i, times, id, storeResponse,
                 getResponse, decrypted, ids, base, reported, rng, envelope>>

\* The loop is over: compute and print the statistics, return to run, which
\* starts the next benchmark call or prints the comparison.  (The in-place
\* sort reorders the local array times, which is dead afterwards; the model
\* keeps the durations in recording order.)
BenchmarkReturn ==
  /\ pc = "loop"
  /\ i >= iterations
  /\ LET stats == Statistics(times) IN
     IF stats.thrown
     THEN /\ Caught(stats.err)
          /\ UNCHANGED <<strat, i, times, ids, base, reported>>
     ELSE /\ reported' = Append(reported, [label |-> Labels[strat], summary |-> stats.val])
          /\ UNCHANGED err
          /\ IF strat < 4
             THEN /\ strat' = strat + 1
                  /\ i' = 0
                  /\ times' = <<>>
                  /\ ids' = <<>>
                  /\ base' = Len(strings)
                  /\ pc' = "loop"
             ELSE /\ pc' = "done"
                  /\ UNCHANGED <<strat, i, times, ids, base>>
  /\ UNCHANGED <<strings, inflight, responses, text, iterations, id,
                 storeResponse, getResponse, decrypted, rng, envelope>>

Next ==
  \/ IterationStart
  \/ PeerHandle
  \/ StoreResolved
  \/ RetrieveResolved
  \/ RequestError
  \/ BenchmarkReturn

Spec == Init /\ [][Next]_vars

\* ------------------------------------------------ the peer, free clients
\* Any number of clients send at most MaxRecords requests in all, at most two
\* of them pending at a time; i counts the requests sent, ids collects the ids
\* the accepted stores returned.
InitPeer ==
  /\ strings = <<>>
  /\ inflight = <<>>
  /\ responses = <<>>
  /\ pc = "clients"
  /\ strat = 1
  /\ text = <<>>
  /\ iterations = 0
  /\ i = 0
  /\ times = <<>>
  /\ id = Undefined
  /\ storeResponse = NoResponse
  /\ getResponse = NoResponse
  /\ decrypted = UndefinedText
  /\ ids = <<>>
  /\ base = 0
  /\ reported = <<>>
  /\ err = ""
  /\ rng = 0
  /\ envelope = <<>>

ClientStore ==
  /\ pc = "clients"
  /\ i < MaxRecords
  /\ Len(inflight) + Len(responses) < 2
  /\ \E t \in Texts \cup {UndefinedText} : makeRequest("POST", <<>>, t)
  /\ i' = i + 1
  /\ UNCHANGED <<strings, responses, pc, strat, text, iterations, times, id,
                 storeResponse, getResponse, decrypted, ids, base, reported,
                 err, rng, envelope>>

ClientRetrieve ==
  /\ pc = "clients"
  /\ i < MaxRecords
  /\ Len(inflight) + Len(responses) < 2
  /\ \E n \in {Undefined, 0, 1, MaxRecords} :
       makeRequest("GET", TemplateLiteral(n), UndefinedText)
  /\ i' = i + 1
  /\ UNCHANGED <<strings, responses, pc, strat, text, iterations, times, id,
                 storeResponse, getResponse, decrypted, ids, base, reported,
                 err, rng, envelope>>

ClientReceive ==
  /\ pc = "clients"
  /\ Len(responses) > 0
  /\ responses' = Tail(responses)
  /\ ids' = IF Head(responses).status = 201
            THEN Append(ids, Head(responses).id) ELSE ids
  /\ UNCHANGED <<strings, inflight, pc, strat, text, iterations, i, times, id,
                 storeResponse, getResponse, decrypted, base, reported, err,
                 rng, envelope>>

NextPeer ==
  \/ ClientStore
  \/ ClientRetrieve
  \/ PeerHandle
  \/ ClientReceive

SpecPeer == InitPeer /\ [][NextPeer]_vars

\* ------------------------------------------------- the asymmetric scheme
\* A plaintext of n characters; kind 1 has a two-byte character at every
\* third position
TextOf(n, kind) ==
  [j \in 1..n |-> IF kind = 1 /\ j % 3 = 0 THEN 233 ELSE 32 + ((j * 7) % 95)]

InitRSA ==
  /\ strings = <<>>
  /\ inflight = <<>>
  /\ responses = <<>>
  /\ pc = "plaintext"
  /\ strat = 4
  /\ \E n \in 0..MaxChars, kind \in {0, 1} : text = TextOf(n, kind)
  /\ iterations = 0
  /\ i = 0
  /\ times = <<>>
  /\ id = Undefined
  /\ storeResponse = NoResponse
  /\ getResponse = NoResponse
  /\ decrypted = UndefinedText
  /\ ids = <<>>
  /\ base = 0
  /\ reported = <<>>
  /\ err = ""
  /\ rng \in Seeds
  /\ envelope = <<>>

\* rsaEncrypt(text, key)
RsaEncrypt ==
  /\ pc = "plaintext"
  /\ LET e == encryptRSA(text, publicKey, rng) IN
     IF e.thrown
     THEN /\ Caught(e.err)
          /\ UNCHANGED envelope
     ELSE /\ envelope' = e.val
          /\ pc' = "encrypted"
          /\ UNCHANGED err
  /\ rng' = NextRandom(rng)
  /\ UNCHANGED <<strings, inflight, responses, strat, text, iterations, i,
                 times, id, storeResponse, getResponse, decrypted, ids, base,
                 reported>>

\* rsaDecrypt(encryptedData, key)
RsaDecrypt ==
  /\ pc = "encrypted"
  /\ LET d == decryptRSA(envelope, privateKey) IN
     IF d.thrown
     THEN /\ Caught(d.err)
          /\ UNCHANGED decrypted
     ELSE /\ decrypted' = d.val
          /\ pc' = "decrypted"
          /\ UNCHANGED err
  /\ UNCHANGED <<strings, inflight, responses, strat, text, iterations, i,
                 times, id, storeResponse, getResponse, ids, base, reported,
                 rng, envelope>>

NextRSA ==
  \/ RsaEncrypt
  \/ RsaDecrypt

SpecRSA == InitRSA /\ [][NextRSA]_vars

\* The envelope decryptRSA is given is the one JSON.parse read from the
\* peer's answer, not the one encryptRSA returned: on the way a chunk may
\* have been dropped or repeated, or the count changed.  One such change
\* happens to an envelope; decryptRSA then receives it.
EnvelopeAltered ==
  /\ pc = "encrypted"
  /\ envelope.chunkCount = Len(envelope.encrypted)
  /\ \/ /\ Len(envelope.encrypted) > 0
        /\ envelope' = [envelope EXCEPT
                          !.encrypted = SubSeq(@, 1, Len(@) - 1)]
     \/ /\ Len(envelope.encrypted) > 0
        /\ envelope' = [envelope EXCEPT !.encrypted = Append(@, @[1])]
     \/ envelope' = [envelope EXCEPT !.chunkCount = @ + 1]
  /\ UNCHANGED <<strings, inflight, responses, pc, strat, text, iterations, i,
                 times, id, storeResponse, getResponse, decrypted, ids, base,
                 reported, err, rng>>

NextEnvelope ==
  \/ RsaEncrypt
  \/ EnvelopeAltered
  \/ RsaDecrypt

SpecEnvelope == InitRSA /\ [][NextEnvelope]_vars

\* ------------------------------------------------------- the statistics
RECURSIVE SequencesUpTo(_, _)
\* the sequences over S of length at most n
SequencesUpTo(S, n) ==
  IF n = 0 THEN {<<>>}
  ELSE LET shorter == SequencesUpTo(S, n - 1) IN
       shorter \cup {Append(q, x) : q \in shorter, x \in S}

\* The last benchmark call of run has left its loop with any durations
InitStats ==
  /\ strings = <<>>
  /\ inflight = <<>>
  /\ responses = <<>>
  /\ pc = "loop"
  /\ strat = 4
  /\ text = <<>>
  /\ times \in SequencesUpTo(1..MaxDur, MaxN)
  /\ iterations = Len(times)
  /\ i = Len(times)
  /\ id = Undefined
  /\ storeResponse = NoResponse
  /\ getResponse = NoResponse
  /\ decrypted = UndefinedText
  /\ ids = <<>>
  /\ base = 0
  /\ reported = <<>>
  /\ err = ""
  /\ rng = 0
  /\ envelope = <<>>

NextStats == BenchmarkReturn

SpecStats == InitStats /\ [][NextStats]_vars

\* ================================================================ claims
\* C1: within one benchmark run the iterations are strictly sequential: at no
\* point are two requests of the run in flight, and while the store request
\* of an iteration is in flight every earlier iteration is complete (its id
\* read, its text verified and its duration recorded).
C1_IterationsSequential ==
  /\ Len(inflight) + Len(responses) <= 1
  /\ \A k \in 1..Len(inflight) :
       inflight[k].method = "POST" =>
         /\ pc = "awaitStore"
         /\ Len(times) = i
         /\ Len(ids) = i

C1_Witness ==
  /\ pc = "awaitStore"
  /\ strat = 2
  /\ i = 2
  /\ Len(inflight) = 1
  /\ inflight[1].method = "POST"

\* C2: the peer's identifiers are 0, 1, ..., n-1 in insertion order: every
\* accepted store returns the number of records stored before it and appends
\* exactly its record, every other request leaves the records alone, no id
\* is returned twice and no record is ever removed or changed.
C2_IdsAppendOnly ==
  [][ /\ \A j \in 1..Len(strings') : strings'[j].id = j - 1
      /\ Len(strings') >= Len(strings)
      /\ SubSeq(strings', 1, Len(strings)) = strings
      /\ Len(responses') > Len(responses) =>
           LET r == responses'[Len(responses')] IN
           IF r.status = 201
           THEN /\ r.id = Len(strings)
                /\ strings' = Append(strings, [id |-> r.id, text |-> r.text])
           ELSE strings' = strings
      /\ Len(responses') <= Len(responses) => strings' = strings
      /\ \A a, b \in 1..Len(ids') : a # b => ids'[a] # ids'[b]
    ]_vars

C2_Witness ==
  /\ pc = "clients"
  /\ Len(strings) = 2
  /\ ids = <<0, 1>>
  /\ Len(responses) = 2
  /\ responses[1].status = 400
  /\ responses[2].status = 404

\* the errors of the code that are transport errors
TransportErrors == {"TransportError", "RequestError"}

\* C3: a non-success answer of the peer is a failure, never a completed
\* iteration: an iteration that records a duration had a successful store and
\* a successful retrieve, a rejected store ends in a transport error and a
\* retrieve answered 404 ends in NotFound.
C3_NonSuccessIsFailure ==
  /\ (pc = "loop" /\ i > 0) =>
        (storeResponse.status = 201 /\ getResponse.status = 200)
  /\ (pc = "caught" /\ storeResponse.status = 400) => err \in TransportErrors
  /\ (pc = "caught" /\ getResponse.status = 404) => err = "NotFound"

\* the unencrypted call with iterations = 1 has finished its only iteration
UnencryptedOnce == strat = 1 /\ iterations = 1 /\ pc = "loop" /\ i = 1

\* exactly one more record, and the retrieved text is the plaintext
OneRecordSameText ==
  /\ Len(strings) = base + 1
  /\ strings[Len(strings)].text = text
  /\ getResponse.status = 200
  /\ getResponse.text = text

C5_SymmetricRun ==
  strat \in {2, 3} =>
    /\ \A k \in 1..Len(ids) : ids[k] = base + k - 1
    /\ Len(times) <= iterations
    /\ (pc = "loop" /\ i > 0) =>
          /\ decrypted = text
          /\ Len(times) = i
          /\ Len(ids) = i
    /\ (pc = "loop" /\ i >= iterations) => Len(times) = iterations

C5_Witness ==
  /\ strat = 2
  /\ base = 0
  /\ iterations = 3
  /\ pc = "loop"
  /\ i = 3
  /\ Len(times) = 3
  /\ ids = <<0, 1, 2>>
  /\ text = <<104, 233>>

\* an iteration of the current strategy has hit a fatal error: an exception
\* reached run, or the peer answered a store or a retrieve without success
FatalError ==
  \/ pc = "caught"
  \/ storeResponse.status \notin {0, 201}
  \/ getResponse.status \notin {0, 200}

\* C6: once an iteration has hit a fatal error the run of that strategy is
\* over: no request is issued any more, no iteration is counted or timed, no
\* other strategy starts, and what was reported stays as it is.
C6_FatalErrorEndsRun ==
  [][ FatalError =>
        /\ Len(inflight') <= Len(inflight)
        /\ i' = i
        /\ times' = times
        /\ strat' = strat
        /\ reported' = reported
    ]_vars

CeilDiv(a, b) == (a + b - 1) \div b

\* C7: encryptRSA cuts a plaintext of L bytes into ceil(L / 190) chunks at
\* the offsets 0, 190, 380, ..., and decryptRSA gives back the L bytes.
C7_ChunkingRoundTrip ==
  LET bytes == Utf8Encode(text)
      L == Len(bytes)
  IN /\ pc # "caught"
     /\ pc \in {"encrypted", "decrypted"} =>
          /\ envelope.chunkCount = CeilDiv(L, 190)
          /\ Len(envelope.encrypted) = CeilDiv(L, 190)
          /\ \A k \in 1..Len(envelope.encrypted) :
               LET d == privateDecrypt(privateKey, FromHex(envelope.encrypted[k])) IN
               /\ ~d.thrown
               /\ d.val = SubSeq(bytes, 190 * (k - 1) + 1,
                                 IF 190 * k > L THEN L ELSE 190 * k)
     /\ pc = "decrypted" =>
          /\ decrypted = text
          /\ Utf8Encode(decrypted) = bytes

C7_Witness ==
  /\ pc = "decrypted"
  /\ Len(Utf8Encode(text)) = 380
  /\ envelope.chunkCount = 2
  /\ Len(text) < 380

CountBelow(ts, m) == Cardinality({j \in 1..Len(ts) : ts[j] < m})
CountAtMost(ts, m) == Cardinality({j \in 1..Len(ts) : ts[j] <= m})

RECURSIVE SumOf(_)
SumOf(ts) == IF Len(ts) = 0 THEN 0 ELSE Head(ts) + SumOf(Tail(ts))

\* the summary the last benchmark call returned
LastSummary == reported[Len(reported)].summary

\* C8: for a non-empty sequence of n durations the summary has the smallest
\* element as min, the largest as max, sum / n as average and the element at
\* zero-based index floor(n/2) of the ascending order as median.
C8_SummaryStatistics ==
  /\ (pc = "caught" /\ strat = 4 /\ i >= iterations) => Len(times) = 0
  /\ (pc = "done" /\ Len(times) > 0) =>
       LET n == Len(times) IN
       /\ \E j \in 1..n : times[j] = LastSummary.min
       /\ \A j \in 1..n : LastSummary.min <= times[j]
       /\ \E j \in 1..n : times[j] = LastSummary.max
       /\ \A j \in 1..n : LastSummary.max >= times[j]
       /\ LastSummary.avg = <<SumOf(times), n>>
       /\ \E j \in 1..n : times[j] = LastSummary.median
       /\ CountBelow(times, LastSummary.median) <= n \div 2
       /\ CountAtMost(times, LastSummary.median) > n \div 2
       /\ times = <<5, 1, 3>> =>
            LastSummary = [avg |-> <<9, 3>>, median |-> 3, min |-> 1, max |-> 5]

C8_Witness == pc = "done" /\ times = <<5, 1, 3>> /\ LastSummary.median = 3

\* an even number of durations has been summarized
EvenSummarized == pc = "done" /\ Len(times) > 0 /\ Len(times) % 2 = 0

\* C9 as stated: for an even number of durations the median is the lower of
\* the two middle elements of the ascending order; [1,2,3,4] gives 2.
C9_EvenMedianLowerMiddle ==
  EvenSummarized =>
    /\ CountBelow(times, LastSummary.median) <= (Len(times) \div 2) - 1
    /\ CountAtMost(times, LastSummary.median) > (Len(times) \div 2) - 1
    /\ times = <<1, 2, 3, 4>> => LastSummary.median = 2

\* C9 amended: for an even number of durations the median is the upper of
\* the two middle elements of the ascending order (never their average);
\* [1,2,3,4] gives 3.
C9_EvenMedianUpperMiddle ==
  EvenSummarized =>
    /\ CountBelow(times, LastSummary.median) <= Len(times) \div 2
    /\ CountAtMost(times, LastSummary.median) > Len(times) \div 2
    /\ \E j \in 1..Len(times) : times[j] = LastSummary.median
    /\ times = <<1, 2, 3, 4>> => LastSummary.median = 3

C9_Witness == EvenSummarized /\ times = <<1, 2, 3, 4>> /\ LastSummary.median = 3

\* C10: summarizing zero durations fails with EmptyInput: the call neither
\* returns a summary (of NaN, Infinity and undefined) nor fails otherwise.
C10_EmptyInputError ==
  /\ (iterations = 0 /\ pc # "loop") => (pc = "caught" /\ err = "EmptyInput")
  /\ \A k \in 1..Len(reported) :
       /\ reported[k].summary.avg # NaN
       /\ reported[k].summary.median # Undefined
       /\ reported[k].summary.min # PosInfinity
       /\ reported[k].summary.max # NegInfinity

\* C11: decoding an asymmetric envelope validates the explicit chunk count
\* against the chunk list: decryptRSA returns a plaintext only for an
\* envelope whose chunkCount is the number of its chunks, and rejects any
\* other.
C11_ChunkCountValidated ==
  pc = "decrypted" => envelope.chunkCount = Len(envelope.encrypted)

====
